---- MODULE Spec2Model ----
(***************************************************************************)
(* Medit / Gamma Mesh Format codec (meshio/medit/_medit.py).               *)
(*                                                                         *)
(* The ASCII file is a flat sequence of tokens (words, integers, floats   *)
(* and newlines); the binary file is a sequence of 32-bit words, so that   *)
(* a 4-byte field is one word and an 8-byte field is two (low word first, *)
(* the order of a little-endian host).  A byte offset is four times a word *)
(* offset.                                                                 *)
(***************************************************************************)
EXTENDS Integers, Sequences, FiniteSets, TLC

VARIABLES
    mesh,   \* the caller's mesh container handed to write()
    mesh0,  \* the container as it was before the first write (history)
    wr,     \* the writer: files produced so far and the last call's outcome
    txt,    \* the ASCII file being read
    bin,    \* the binary file being read
    rd,     \* the reader's local variables and its position in the file
    cv      \* a node-index row going through _convert_cell_data

vars == <<mesh, mesh0, wr, txt, bin, rd, cv>>

----------------------------------------------------------------------------
(* Bounds of the model *)

MaxShift == 2       \* rows checked by the reordering adapter start at 0..MaxShift
MaxSections == 3    \* sections of a hand-made ASCII file
MaxBinBlocks == 2   \* blocks of a hand-made binary file after the header
MaxBlocks == 2      \* element blocks of a mesh container handed to write()
MaxWrites == 2      \* write() calls on one container

----------------------------------------------------------------------------
(* Generic helpers *)

Range(s) == {s[i] : i \in DOMAIN s}

Min(a, b) == IF a < b THEN a ELSE b

RECURSIVE Concat(_)
Concat(ss) == IF ss = <<>> THEN <<>> ELSE Head(ss) \o Concat(Tail(ss))

\* All sequences over S of length 0..n
SeqsUpTo(S, n) == UNION {[1..k -> S] : k \in 0..n}

----------------------------------------------------------------------------
(* Element type registry *)

\* meshio: (medit, nodes_per_elements, tag)
DICT_MESHIO ==
    [ point        |-> <<"Vertices", 0, 4>>,
      line         |-> <<"Edges", 2, 5>>,
      line3        |-> <<"EdgesP2", 3, 25>>,
      line4        |-> <<"EdgesP3", 4, 92>>,
      line5        |-> <<"EdgesP4", 5, 93>>,
      triangle     |-> <<"Triangles", 3, 6>>,
      triangle6    |-> <<"TrianglesP2", 6, 24>>,
      triangle10   |-> <<"TrianglesP3", 10, 90>>,
      triangle15   |-> <<"TrianglesP4", 15, 91>>,
      quad         |-> <<"Quadrilaterals", 4, 7>>,
      quad9        |-> <<"QuadrilateralsQ2", 9, 27>>,
      tetra        |-> <<"Tetrahedra", 4, 8>>,
      tetra10      |-> <<"TetrahedraP2", 10, 30>>,
      wedge        |-> <<"Prisms", 6, 9>>,
      wedge18      |-> <<"PrismsP2", 18, 86>>,
      pyramid      |-> <<"Pyramids", 5, 49>>,
      hexahedron   |-> <<"Hexahedra", 8, 10>>,
      hexahedron27 |-> <<"HexahedraQ2", 27, 33>> ]

MeshioOf(medit) == CHOOSE k \in DOMAIN DICT_MESHIO : DICT_MESHIO[k][1] = medit

\* medit: (meshio, nodes_per_elements, tag), with the Dobrzynski spelling added
DICT_MEDIT ==
    [m \in {DICT_MESHIO[k][1] : k \in DOMAIN DICT_MESHIO} \cup {"Hexaedra"} |->
        IF m = "Hexaedra" THEN <<"hexahedron", 8, 10>>
        ELSE <<MeshioOf(m), DICT_MESHIO[MeshioOf(m)][2], DICT_MESHIO[MeshioOf(m)][3]>>]

\* GmfMedit: (meshio, nodes_per_elements, tag)
DICT_GMFMEDIT ==
    [g \in {"Gmf" \o m : m \in DOMAIN DICT_MEDIT} |->
        DICT_MEDIT[CHOOSE m \in DOMAIN DICT_MEDIT : "Gmf" \o m = g]]

----------------------------------------------------------------------------
(* Cell reordering adapter *)

\* The tables hold zero-based positions, as in the source.
_medit_to_meshio ==
    [ hexahedron27 |->
        [i \in 1..20 |-> i - 1] \o <<25, 23, 22, 24, 20, 21, 26>> ]

\* order.index(i): zero-based position of the first occurrence of i
IndexOf(order, i) == (CHOOSE p \in DOMAIN order :
                        order[p] = i /\ \A q \in 1..(p - 1) : order[q] # i) - 1

\* A table that copies the internal-direction order instead of inverting it
MeshioToMeditNotInverted == _medit_to_meshio

_meshio_to_medit ==
    [t \in DOMAIN _medit_to_meshio |->
        [i \in 1..Len(_medit_to_meshio[t]) |-> IndexOf(_medit_to_meshio[t], i - 1)]]

\* data[:, idx] on one row; a position outside the row is an IndexError
RowOk(row, idx) == \A j \in DOMAIN idx : idx[j] + 1 \in DOMAIN row

TakeRow(row, idx) == [j \in DOMAIN idx |-> row[idx[j] + 1]]

\* _convert_cell_data on a block's rows (every row has the block's width)
_convert_cell_data(cell_type, data, dict_convert) ==
    IF cell_type \in DOMAIN dict_convert
    THEN [r \in DOMAIN data |-> TakeRow(data[r], dict_convert[cell_type])]
    ELSE data

ConvertOk(cell_type, data, dict_convert) ==
    cell_type \in DOMAIN dict_convert =>
        \A r \in DOMAIN data : RowOk(data[r], dict_convert[cell_type])

\* _convert_cells: every (cell_type, data) pair of the list, in place
_convert_cells(cells, dict_convert) ==
    [i \in DOMAIN cells |->
        [cells[i] EXCEPT !.data = _convert_cell_data(cells[i].type, cells[i].data, dict_convert)]]

----------------------------------------------------------------------------
(* Numbers as the ASCII codec stores them *)

RECURSIVE Log2(_)
Log2(n) == IF n < 2 THEN 0 ELSE 1 + Log2(n \div 2)

Abs(n) == IF n < 0 THEN 0 - n ELSE n

\* Nearest value with a 24-bit significand (c_float), ties to even
RoundSingle(n) ==
    LET a == Abs(n)
        e == Log2(a)
        ulp == IF e > 23 THEN 2 ^ (e - 23) ELSE 1
        q == a \div ulp
        r == a % ulp
        up == (2 * r > ulp) \/ (2 * r = ulp /\ q % 2 = 1)
        m == (IF up THEN q + 1 ELSE q) * ulp
    IN  IF n < 0 THEN 0 - m ELSE m

\* What a text number becomes in an array of a float dtype (4: c_float, 8: c_double;
\* every integer of the model is exact in a c_double)
AsFloat(size, n) == IF size = 4 THEN RoundSingle(n) ELSE n

----------------------------------------------------------------------------
(* ASCII file: tokens and the two ways the reader consumes them *)

W(s) == [k |-> "w", w |-> s, n |-> 0]     \* a word
I(n) == [k |-> "i", w |-> "", n |-> n]    \* an integer literal, as "{:d}" prints it
F(n) == [k |-> "f", w |-> "", n |-> n]    \* a float literal, as "{:.16e}" prints it
NL == [k |-> "nl", w |-> "", n |-> 0]     \* end of line

Line(toks) == toks \o <<NL>>

\* Words of the model's vocabulary for which str.isalpha() is false
NonAlphaWords ==
    {"EdgesP2", "EdgesP3", "EdgesP4", "TrianglesP2", "TrianglesP3", "TrianglesP4",
     "QuadrilateralsQ2", "TetrahedraP2", "PrismsP2", "HexahedraQ2", "x1", "#"}

isalpha(tok) == tok.k = "w" /\ tok.w \notin NonAlphaWords

\* The text of a token, for comparison with a keyword
Text(tok) == IF tok.k = "w" THEN tok.w ELSE "<number>"

LineEnd(f, p) ==
    IF \E q \in p..Len(f) : f[q] = NL
    THEN CHOOSE q \in p..Len(f) : f[q] = NL /\ \A q2 \in p..(q - 1) : f[q2] # NL
    ELSE Len(f) + 1

\* f.readline() followed by strip() and split(); eof is the empty string readline returns
ReadLine(f, p) ==
    [eof   |-> p > Len(f),
     items |-> SubSeq(f, p, LineEnd(f, p) - 1),
     next  |-> Min(LineEnd(f, p) + 1, Len(f) + 1)]

\* int(f.readline()): a ValueError unless the line is one integer literal
IntLine(f, p) ==
    LET l == ReadLine(f, p)
        good == ~l.eof /\ Len(l.items) = 1 /\ l.items[1].k = "i"
    IN  [ok |-> good, val |-> IF good THEN l.items[1].n ELSE 0, next |-> l.next]

\* dtype is 0 for int, else the size of the float type; an integer field does not
\* parse a float literal
Parses(tok, dtype) == IF dtype = 0 THEN tok.k = "i" ELSE tok.k \in {"i", "f"}

Parsed(tok, dtype) == IF dtype = 0 THEN tok.n ELSE AsFloat(dtype, tok.n)

\* np.fromfile(f, count=count, dtype=dtype, sep=" "): numbers separated by any white
\* space, up to count of them, stopping short at a token that is no number or at the end
RECURSIVE FromFileText(_, _, _, _, _)
FromFileText(f, p, count, dtype, acc) ==
    IF Len(acc) >= count \/ p > Len(f) THEN [vals |-> acc, next |-> p]
    ELSE IF f[p] = NL THEN FromFileText(f, p + 1, count, dtype, acc)
    ELSE IF Parses(f[p], dtype)
         THEN FromFileText(f, p + 1, count, dtype, Append(acc, Parsed(f[p], dtype)))
         ELSE [vals |-> acc, next |-> p]

\* reshape(n, w) of a flat array of exactly n * w items
Reshape(vals, n, w) == [r \in 1..n |-> SubSeq(vals, (r - 1) * w + 1, r * w)]

\* A count line, then np.fromfile(count * per).reshape(count, per); a short read makes
\* reshape raise ValueError
CountedRows(f, p, per, dtype) ==
    LET c == IntLine(f, p)
        n == IF c.ok /\ c.val >= 0 THEN c.val ELSE 0
        got == FromFileText(f, c.next, n * per, dtype, <<>>)
    IN  [ok   |-> c.ok /\ c.val >= 0 /\ Len(got.vals) = n * per,
         rows |-> IF Len(got.vals) = n * per THEN Reshape(got.vals, n, per) ELSE <<>>,
         next |-> got.next]

RECURSIVE SkipLines(_, _, _)
SkipLines(f, p, n) == IF n <= 0 THEN p ELSE SkipLines(f, ReadLine(f, p).next, n - 1)

----------------------------------------------------------------------------
(* The reader's local state.  pc: "idle", "ascii" or "binary" while a read   *)
(* runs, then "returned" (a Mesh was returned), "ReadError", or "OtherError" *)
(* (a ValueError, KeyError or IndexError escaped the reader).                *)

ReaderStart(kind) ==
    [pc |-> kind, pos |-> 1,
     dim |-> 0, dtype |-> 0,                    \* dtype 0 is None, else the float size
     hasPoints |-> FALSE, points |-> <<>>,      \* hasPoints FALSE: points is None
     point_ref |-> <<>>,                        \* point_data["medit:ref"]
     cells |-> <<>>, cell_ref |-> <<>>,         \* cells, cell_data["medit:ref"]
     warnings |-> <<>>,                         \* what warn() was called about
     version |-> 0, isize |-> 0, fsize |-> 0, possize |-> 0, swapped |-> FALSE,
     \* history, read by no handler: the keyword dispatched last, the keywords
     \* dispatched before it, whether End was dispatched and how many lines were
     \* dispatched after it, and whether a block was stored from a short read
     last |-> "", seenBefore |-> {}, ended |-> FALSE, afterEnd |-> 0, partial |-> FALSE,
     passes |-> 0,                              \* blocks the binary loop went through
     input |-> <<>>]                            \* how a hand-made binary file was built

Raise(st, what) == [st EXCEPT !.pc = what]

\* One more line was dispatched: history of what came after an End keyword
Dispatched(st, kw) ==
    [st EXCEPT !.last = kw,
               !.seenBefore = IF st.last = "" THEN @ ELSE @ \cup {st.last},
               !.afterEnd = IF st.ended THEN @ + 1 ELSE @]

----------------------------------------------------------------------------
(* read_ascii_buffer: the handlers of the keyword dispatch *)

\* MeshVersionFormatted <v>
AsciiVersion(st, items, next) ==
    IF Len(items) < 2 THEN Raise(st, "OtherError")                  \* IndexError
    ELSE IF ~(items[2].k = "i" /\ items[2].n \in 0..3) THEN Raise(st, "OtherError")  \* KeyError
    ELSE [st EXCEPT !.dtype = IF items[2].n \in {0, 1} THEN 4 ELSE 8, !.pos = next]

\* Dimension <d>, or Dimension with the number on the next line
AsciiDimension(st, f, items, next) ==
    IF Len(items) >= 2
    THEN IF items[2].k = "i" THEN [st EXCEPT !.dim = items[2].n, !.pos = next]
         ELSE Raise(st, "OtherError")
    ELSE LET c == IntLine(f, next)
         IN  IF c.ok THEN [st EXCEPT !.dim = c.val, !.pos = c.next]
             ELSE Raise(st, "OtherError")

\* Vertices, without the check that a version keyword set the float type
AsciiVerticesNoVersionCheck(st, f, next) ==
    IF st.dim <= 0 THEN Raise(st, "ReadError")
    ELSE LET out == CountedRows(f, next, st.dim + 1, st.dtype)
         IN  IF ~out.ok THEN Raise(st, "OtherError")
             ELSE [st EXCEPT !.hasPoints = TRUE, !.pos = out.next]

\* Vertices
AsciiVertices(st, f, next) ==
    IF st.dim <= 0 THEN Raise(st, "ReadError")
    ELSE IF st.dtype = 0 THEN Raise(st, "ReadError")
    ELSE LET out == CountedRows(f, next, st.dim + 1, st.dtype)
         IN  IF ~out.ok THEN Raise(st, "OtherError")
             ELSE [st EXCEPT !.hasPoints = TRUE,
                             !.points = [r \in DOMAIN out.rows |-> SubSeq(out.rows[r], 1, st.dim)],
                             !.point_ref = [r \in DOMAIN out.rows |-> out.rows[r][st.dim + 1]],
                             !.pos = out.next]

\* A keyword of DICT_MEDIT
AsciiCells(st, f, kw, next) ==
    LET meshio_type == DICT_MEDIT[kw][1]
        points_per_cell == DICT_MEDIT[kw][2]
        out == CountedRows(f, next, points_per_cell + 1, 0)
    IN  IF ~out.ok THEN Raise(st, "OtherError")
        ELSE [st EXCEPT
                !.cells = Append(@, [type |-> meshio_type,
                                     data |-> [r \in DOMAIN out.rows |->
                                                 [j \in 1..points_per_cell |-> out.rows[r][j] - 1]]]),
                !.cell_ref = Append(@, [r \in DOMAIN out.rows |-> out.rows[r][points_per_cell + 1]]),
                !.pos = out.next]

\* Sections that are read and dropped: items per entry and the dtype they are parsed as
DiscardedPer(st, kw) ==
    CASE kw = "Normals" -> <<st.dim, IF st.dtype = 0 THEN 8 ELSE st.dtype>>
      [] kw = "NormalAtVertices" -> <<2, 0>>
      [] kw = "SubDomainFromMesh" -> <<4, 0>>
      [] kw = "SubDomainFromGeom" -> <<4, 0>>
      [] kw = "VertexOnGeometricVertex" -> <<2, 0>>
      [] kw = "VertexOnGeometricEdge" -> <<3, 8>>
      [] kw = "EdgeOnGeometricEdge" -> <<2, 0>>

AsciiDiscarded(st, f, kw, next) ==
    LET out == CountedRows(f, next, DiscardedPer(st, kw)[1], DiscardedPer(st, kw)[2])
    IN  IF out.ok THEN [st EXCEPT !.pos = out.next] ELSE Raise(st, "OtherError")

\* Corners: the items are read without a reshape, so a short read is no error
AsciiCorners(st, f, next) ==
    LET c == IntLine(f, next)
    IN  IF ~c.ok THEN Raise(st, "OtherError")
        ELSE [st EXCEPT !.pos = FromFileText(f, c.next, IF c.val < 0 THEN 0 ELSE c.val,
                                             IF st.dtype = 0 THEN 8 ELSE st.dtype, <<>>).next]

\* RequiredVertices, TangentAtVertices, Tangents, Ridges: warn and skip the lines
AsciiSkipped(st, f, kw, next) ==
    LET c == IntLine(f, next)
    IN  IF ~c.ok THEN Raise([st EXCEPT !.warnings = Append(@, kw)], "OtherError")
        ELSE [st EXCEPT !.warnings = Append(@, kw), !.pos = SkipLines(f, c.next, c.val)]

\* A final branch that takes every unknown alphabetic keyword for End
AsciiElseNoRaise(st, kw, next) == [st EXCEPT !.pos = next, !.ended = TRUE]

\* The final else branch: End and END pass, anything else is an unknown keyword
AsciiElse(st, kw, next) ==
    IF kw \notin {"End", "END"} THEN Raise(st, "ReadError")
    ELSE [st EXCEPT !.pos = next, !.ended = TRUE]

\* The dispatch on items[0], after the line was found neither blank nor a comment
AsciiDispatch(st, f, items, next) ==
    LET kw == Text(items[1]) IN
    IF (~isalpha(items[1])) /\ kw \notin DOMAIN DICT_MEDIT THEN Raise(st, "ReadError")
    ELSE IF kw = "MeshVersionFormatted" THEN AsciiVersion(st, items, next)
    ELSE IF kw = "Dimension" THEN AsciiDimension(st, f, items, next)
    ELSE IF kw = "Vertices" THEN AsciiVertices(st, f, next)
    ELSE IF kw \in DOMAIN DICT_MEDIT THEN AsciiCells(st, f, kw, next)
    ELSE IF kw = "Corners" THEN AsciiCorners(st, f, next)
    ELSE IF kw \in {"Normals", "NormalAtVertices", "SubDomainFromMesh", "SubDomainFromGeom",
                    "VertexOnGeometricVertex", "VertexOnGeometricEdge", "EdgeOnGeometricEdge"}
         THEN AsciiDiscarded(st, f, kw, next)
    ELSE IF kw \in {"Identifier", "Geometry"} THEN [st EXCEPT !.pos = ReadLine(f, next).next]
    ELSE IF kw \in {"RequiredVertices", "TangentAtVertices", "Tangents", "Ridges"}
         THEN AsciiSkipped(st, f, kw, next)
    ELSE AsciiElse(st, kw, next)

\* One pass of the while loop over a line that is not the end of the file
AsciiLine(st, f) ==
    LET l == ReadLine(f, st.pos) IN
    IF Len(l.items) = 0 \/ Text(l.items[1]) = "#" THEN [st EXCEPT !.pos = l.next]
    ELSE AsciiDispatch(Dispatched(st, Text(l.items[1])), f, l.items, l.next)

\* The end of the file breaks the loop; then the vertices check, the reordering and Mesh()
AsciiReturn(st) ==
    IF ~st.hasPoints THEN Raise(st, "ReadError")
    ELSE IF \E i \in DOMAIN st.cells : ~ConvertOk(st.cells[i].type, st.cells[i].data, _medit_to_meshio)
         THEN Raise(st, "OtherError")
    ELSE [st EXCEPT !.cells = _convert_cells(@, _medit_to_meshio), !.pc = "returned"]

\* read_ascii_buffer, one loop pass per step
AsciiStep ==
    /\ rd.pc = "ascii"
    /\ ~ReadLine(txt, rd.pos).eof
    /\ rd' = AsciiLine(rd, txt)
    /\ UNCHANGED <<mesh, mesh0, wr, txt, bin, cv>>

AsciiFinish ==
    /\ rd.pc = "ascii"
    /\ ReadLine(txt, rd.pos).eof
    /\ rd' = AsciiReturn(rd)
    /\ UNCHANGED <<mesh, mesh0, wr, txt, bin, cv>>

----------------------------------------------------------------------------
(* Binary file: fields as 32-bit words *)

\* The four bytes of a word, least significant first
ByteOf(w, i) == (w \div (256 ^ i)) % 256

\* The word whose bytes are those of w in reverse order
Swap32(w) ==
    (IF ByteOf(w, 0) >= 128 THEN ByteOf(w, 0) - 256 ELSE ByteOf(w, 0)) * (256 ^ 3)
    + ByteOf(w, 1) * (256 ^ 2) + ByteOf(w, 2) * 256 + ByteOf(w, 3)

\* A value that stands for every float that is no coordinate of the model
OtherFloat == 0 - 1

\* A value that stands for every 8-byte integer outside the 4-byte range
OtherInt == 0 - (2 ^ 30)

\* IEEE 754 double of a small non-negative integer: its high word (the low word is 0)
DoubleHigh(c) ==
    IF c = 0 THEN 0
    ELSE (1023 + Log2(c)) * (2 ^ 20) + (c - 2 ^ Log2(c)) * (2 ^ (20 - Log2(c)))

DoubleValue(lo, hi) ==
    LET e == (hi \div (2 ^ 20)) - 1023
        m == hi % (2 ^ 20)
    IN  IF lo = 0 /\ hi = 0 THEN 0
        ELSE IF lo = 0 /\ hi > 0 /\ e \in 0..20 /\ m % (2 ^ (20 - e)) = 0
             THEN 2 ^ e + m \div (2 ^ (20 - e))
             ELSE OtherFloat

\* IEEE 754 single of a small non-negative integer
SingleWord(c) ==
    IF c = 0 THEN 0
    ELSE (127 + Log2(c)) * (2 ^ 23) + (c - 2 ^ Log2(c)) * (2 ^ (23 - Log2(c)))

SingleValue(w) ==
    LET e == (w \div (2 ^ 23)) - 127
        m == w % (2 ^ 23)
    IN  IF w = 0 THEN 0
        ELSE IF w > 0 /\ e \in 0..23 /\ m % (2 ^ (23 - e)) = 0
             THEN 2 ^ e + m \div (2 ^ (23 - e))
             ELSE OtherFloat

\* The words of one field in native order; size is 4 or 8 bytes, t is "i" or "r"
NativeWords(t, size, v) ==
    IF t = "i" THEN (IF size = 4 THEN <<v>> ELSE <<v, IF v < 0 THEN 0 - 1 ELSE 0>>)
    ELSE (IF size = 4 THEN <<SingleWord(v)>> ELSE <<0, DoubleHigh(v)>>)

\* The value of one field from its words in native order
NativeValue(t, ws) ==
    IF t = "i"
    THEN (IF Len(ws) = 1 THEN ws[1]
          ELSE IF (ws[2] = 0 /\ ws[1] >= 0) \/ (ws[2] = 0 - 1 /\ ws[1] < 0) THEN ws[1]
          ELSE OtherInt)
    ELSE (IF Len(ws) = 1 THEN SingleValue(ws[1]) ELSE DoubleValue(ws[1], ws[2]))

\* Reversing the bytes of a field reverses its words and the bytes of each
SwapWords(ws) == [i \in DOMAIN ws |-> Swap32(ws[Len(ws) + 1 - i])]

Encode(t, size, swapped, v) ==
    IF swapped THEN SwapWords(NativeWords(t, size, v)) ELSE NativeWords(t, size, v)

\* np.fromfile(f, count=1, dtype=...): one field, or an empty array at the end of the
\* file (what is left of a cut field is consumed)
ReadField(f, p, t, size, swapped) ==
    LET n == size \div 4
        have == p + n - 1 <= Len(f)
        ws == IF have THEN SubSeq(f, p, p + n - 1) ELSE <<>>
    IN  [size |-> IF have THEN 1 ELSE 0,
         val  |-> IF have THEN NativeValue(t, IF swapped THEN SwapWords(ws) ELSE ws) ELSE 0,
         next |-> IF have THEN p + n ELSE Len(f) + 1]

----------------------------------------------------------------------------
(* medit_codes (meshio/medit/_medit_internal.py): tag -> (keyword, "i" when the  *)
(* block has an item count, record template).  Of the table, the entries the    *)
(* codec names (dimension, vertices, end, reserved), those of the registered    *)
(* element types, and two count-prefixed blocks no element type maps to.        *)

ElementTags == {DICT_MESHIO[k][3] : k \in DOMAIN DICT_MESHIO \ {"point"}}

TypeOfTag(tag) == CHOOSE k \in DOMAIN DICT_MESHIO \ {"point"} : DICT_MESHIO[k][3] = tag

medit_codes ==
    [tag \in {2, 3, 4, 13, 14, 54} \cup ElementTags |->
        CASE tag = 2 -> <<"GmfReserved", "", <<>>>>
          [] tag = 3 -> <<"GmfDimension", "", <<"i">>>>
          [] tag = 4 -> <<"GmfVertices", "i", <<"d", "r", "i">>>>
          [] tag = 13 -> <<"GmfCorners", "i", <<"i">>>>
          [] tag = 14 -> <<"GmfRidges", "i", <<"i">>>>
          [] tag = 54 -> <<"GmfEnd", "", <<>>>>
          [] OTHER -> <<"Gmf" \o DICT_MESHIO[TypeOfTag(tag)][1], "i",
                        [j \in 1..(DICT_MESHIO[TypeOfTag(tag)][2] + 1) |-> "i"]>>]

----------------------------------------------------------------------------
(* _produce_dtype: the record layout of a template.  The dtype string is kept as *)
(* its fields: [n, t, size] is n items of type t ("i" or "r") of size bytes.      *)

RECURSIVE ProduceFields(_, _, _, _, _, _)
ProduceFields(string_type, c, rep, dim, isize, fsize) ==
    IF c > Len(string_type) THEN <<>>
    ELSE IF string_type[c] = "d" THEN ProduceFields(string_type, c + 1, dim, dim, isize, fsize)
    ELSE <<[n |-> rep, t |-> string_type[c], size |-> IF string_type[c] = "i" THEN isize ELSE fsize]>>
         \o ProduceFields(string_type, c + 1, 1, dim, isize, fsize)

\* ok is FALSE where the source raises ReadError("Invalid string type")
_produce_dtype(string_type, dim, isize, fsize) ==
    [ok     |-> \A c \in DOMAIN string_type : string_type[c] \in {"i", "r", "d"},
     fields |-> IF \A c \in DOMAIN string_type : string_type[c] \in {"i", "r", "d"}
                THEN ProduceFields(string_type, 1, 1, dim, isize, fsize) ELSE <<>>]

RECURSIVE SumSeq(_)
SumSeq(q) == IF q = <<>> THEN 0 ELSE Head(q) + SumSeq(Tail(q))

\* Words of one record
RecordWords(fields) == SumSeq([i \in DOMAIN fields |-> fields[i].n * (fields[i].size \div 4)])

\* One record decoded: per field, the sequence of its n values
RECURSIVE DecodeRecord(_, _, _, _)
DecodeRecord(f, p, fields, swapped) ==
    IF fields = <<>> THEN <<>>
    ELSE LET fd == Head(fields)
             w == fd.size \div 4
         IN  <<[j \in 1..fd.n |->
                  ReadField(f, p + (j - 1) * w, fd.t, fd.size, swapped).val]>>
             \o DecodeRecord(f, p + fd.n * w, Tail(fields), swapped)

\* np.fromfile(f, count=nitems, dtype=dtype): the whole records that are there
ReadRecords(f, p, nitems, fields, swapped) ==
    LET rw == RecordWords(fields)
        there == IF rw = 0 THEN 0 ELSE (Len(f) + 1 - p) \div rw
        k == IF nitems < 0 THEN there ELSE Min(nitems, there)
    IN  [recs |-> [r \in 1..k |-> DecodeRecord(f, p + (r - 1) * rw, fields, swapped)],
         next |-> IF k = nitems THEN p + k * rw ELSE Len(f) + 1]

----------------------------------------------------------------------------
(* read_binary_buffer *)

\* Field widths of a file version: index, float, stream position
VersionWidths(version) ==
    CASE version = 1 -> [isize |-> 4, fsize |-> 4, possize |-> 4]
      [] version = 2 -> [isize |-> 4, fsize |-> 8, possize |-> 4]
      [] version = 3 -> [isize |-> 4, fsize |-> 8, possize |-> 8]
      [] OTHER       -> [isize |-> 8, fsize |-> 8, possize |-> 8]

\* Code, version, dimension record: everything before the block loop
BinHeaderRead(st, f) ==
    LET code == ReadField(f, 1, "i", 4, FALSE)
        sw == code.val = 16777216
        version == ReadField(f, code.next, "i", 4, sw)
        w == VersionWidths(version.val)
        field == ReadField(f, version.next, "i", 4, sw)
        posf == ReadField(f, field.next, "i", w.possize, sw)
        dim == ReadField(f, posf.next, "i", 4, sw)
    IN  IF code.size = 0 THEN Raise(st, "OtherError")
        ELSE IF code.val # 1 /\ code.val # 16777216 THEN Raise(st, "ReadError")
        ELSE IF version.size = 0 THEN Raise(st, "OtherError")
        ELSE IF version.val < 1 \/ version.val > 4 THEN Raise(st, "ReadError")
        ELSE IF field.size = 0 THEN Raise(st, "OtherError")
        ELSE IF field.val # 3 THEN Raise(st, "ReadError")
        ELSE IF dim.size = 0 THEN Raise(st, "OtherError")
        ELSE IF dim.val # 2 /\ dim.val # 3 THEN Raise(st, "ReadError")
        ELSE [st EXCEPT !.pc = "binary", !.swapped = sw, !.version = version.val,
                        !.isize = w.isize, !.fsize = w.fsize, !.possize = w.possize,
                        !.dim = dim.val, !.pos = dim.next]

\* What ends the loop: the end of the file at a block tag (with a warning) or GmfEnd
BinAtEnd(st, f) ==
    LET field == ReadField(f, st.pos, "i", 4, st.swapped)
    IN  \/ field.size = 0
        \/ (field.val \in DOMAIN medit_codes /\ medit_codes[field.val][1] = "GmfEnd")

\* After the loop: the reordering and Mesh()
BinReturn(st, f) ==
    LET field == ReadField(f, st.pos, "i", 4, st.swapped)
        st1 == [st EXCEPT !.pos = field.next,
                          !.warnings = IF field.size = 0 THEN Append(@, "End-of-file") ELSE @]
    IN  IF \E i \in DOMAIN st.cells : ~ConvertOk(st.cells[i].type, st.cells[i].data, _medit_to_meshio)
        THEN Raise(st1, "OtherError")
        ELSE [st1 EXCEPT !.cells = _convert_cells(@, _medit_to_meshio), !.pc = "returned"]

\* A skip that warns but leaves the stream at the start of the block's records
BinUnmappedNoAdvance(st, kw, payload, next) ==
    [st EXCEPT !.warnings = Append(@, kw), !.pos = payload]

\* A keyword of medit_codes that DICT_GMFMEDIT does not map: warn and go on
BinUnmapped(st, kw, payload, next) ==
    [st EXCEPT !.warnings = Append(@, kw), !.pos = next]

\* GmfVertices: the records read become the points and their reference labels
BinVertices(st, out, nitems) ==
    [st EXCEPT !.hasPoints = TRUE,
               !.points = [r \in DOMAIN out.recs |-> out.recs[r][1]],
               !.point_ref = [r \in DOMAIN out.recs |-> out.recs[r][2][1]],
               !.partial = @ \/ Len(out.recs) # nitems,
               !.pos = out.next]

\* A mapped element block: the records viewed as integers, nitems rows of ncols + 1
BinCells(st, kw, out, nitems) ==
    LET meshio_type == DICT_GMFMEDIT[kw][1]
        ncols == DICT_GMFMEDIT[kw][2]
        flat == Concat([r \in DOMAIN out.recs |-> Concat(out.recs[r])])
    IN  IF nitems < 0 \/ Len(flat) # nitems * (ncols + 1) THEN Raise(st, "OtherError")
        ELSE LET out_view == Reshape(flat, nitems, ncols + 1)
             IN  [st EXCEPT
                    !.cells = Append(@, [type |-> meshio_type,
                                         data |-> [r \in 1..nitems |->
                                                     [j \in 1..ncols |-> out_view[r][j] - 1]]]),
                    !.cell_ref = Append(@, [r \in 1..nitems |-> out_view[r][ncols + 1]]),
                    !.pos = out.next]

\* One pass of the loop over a block that does not end it
BinBlock(st, f) ==
    LET field == ReadField(f, st.pos, "i", 4, st.swapped) IN
    IF field.val \notin DOMAIN medit_codes THEN Raise(st, "ReadError")
    ELSE
    LET field_code == medit_codes[field.val]
        kw == field_code[1]
        st0 == [st EXCEPT !.last = kw, !.passes = @ + 1]
        posf == ReadField(f, field.next, "i", st.possize, st.swapped)
        cnt == IF field_code[2] = "i"
               THEN ReadField(f, posf.next, "i", st.isize, st.swapped)
               ELSE [size |-> 1, val |-> 1, next |-> posf.next]
        dtype == _produce_dtype(field_code[3], st.dim, st.isize, st.fsize)
        out == ReadRecords(f, cnt.next, cnt.val, dtype.fields, st.swapped)
    IN  IF kw = "GmfReserved" THEN [st0 EXCEPT !.pos = field.next]
        ELSE IF cnt.size = 0 THEN Raise(st0, "OtherError")
        ELSE IF ~dtype.ok THEN Raise(st0, "ReadError")
        ELSE IF kw \notin DOMAIN DICT_GMFMEDIT THEN BinUnmapped(st0, kw, cnt.next, out.next)
        ELSE IF kw = "GmfVertices" THEN BinVertices(st0, out, cnt.val)
        ELSE BinCells(st0, kw, out, cnt.val)

BinHeader ==
    /\ rd.pc = "binhdr"
    /\ rd' = BinHeaderRead(rd, bin)
    /\ UNCHANGED <<mesh, mesh0, wr, txt, bin, cv>>

BinStep ==
    /\ rd.pc = "binary"
    /\ ~BinAtEnd(rd, bin)
    /\ rd' = BinBlock(rd, bin)
    /\ UNCHANGED <<mesh, mesh0, wr, txt, bin, cv>>

BinFinish ==
    /\ rd.pc = "binary"
    /\ BinAtEnd(rd, bin)
    /\ rd' = BinReturn(rd, bin)
    /\ UNCHANGED <<mesh, mesh0, wr, txt, bin, cv>>

----------------------------------------------------------------------------
(* Hand-made ASCII files: every concatenation of up to MaxSections sections *)

NoMesh == [dim |-> 0, fsize |-> 0, points |-> <<>>, point_ref |-> <<>>, cells |-> <<>>]

NoWriter == [calls |-> 0, files |-> <<>>, status |-> "none"]

NoRow == [type |-> "", row |-> <<>>, orig |-> <<>>, mid |-> <<>>, phase |-> "idle"]

HexQ2Line == [i \in 1..27 |-> I(i)] \o <<I(9)>>

AsciiSections ==
    { Line(<<W("MeshVersionFormatted"), I(2)>>) \o Line(<<W("Dimension"), I(3)>>),
      Line(<<W("MeshVersionFormatted"), I(1)>>),
      Line(<<W("Dimension")>>) \o Line(<<I(2)>>),
      Line(<<W("Vertices")>>) \o Line(<<I(1)>>) \o Line(<<I(0), I(0), I(0), I(7)>>),
      Line(<<W("Triangles")>>) \o Line(<<I(1)>>) \o Line(<<I(1), I(2), I(3), I(5)>>),
      Line(<<W("HexahedraQ2")>>) \o Line(<<I(1)>>) \o Line(HexQ2Line),
      Line(<<W("End")>>),
      Line(<<W("Foo")>>),
      Line(<<W("x1")>>),
      Line(<<W("#"), W("comment")>>) \o Line(<<>>)
        \o Line(<<W("Ridges")>>) \o Line(<<I(1)>>) \o Line(<<I(4)>>)
        \o Line(<<W("Identifier")>>) \o Line(<<W("abc")>>)
        \o Line(<<W("Corners")>>) \o Line(<<I(1)>>) \o Line(<<I(1)>>)
        \o Line(<<W("NormalAtVertices")>>) \o Line(<<I(1)>>) \o Line(<<I(1), I(1)>>) }

AsciiFiles == {Concat(s) : s \in SeqsUpTo(AsciiSections, MaxSections)}

InitAscii ==
    /\ txt \in AsciiFiles
    /\ rd = ReaderStart("ascii")
    /\ bin = <<>>
    /\ mesh = NoMesh
    /\ mesh0 = NoMesh
    /\ wr = NoWriter
    /\ cv = NoRow

NextAscii == AsciiStep \/ AsciiFinish

SpecAscii == InitAscii /\ [][NextAscii]_vars

----------------------------------------------------------------------------
(* Claims about read_ascii_buffer, checked under SpecAscii *)

\* C2: End (or END) is terminal: once it has been dispatched, no later line of the
\* file is dispatched.
C2_EndIsTerminal == rd.afterEnd = 0

\* The keywords the ASCII reader handles
HandledKeywords ==
    {"MeshVersionFormatted", "Dimension", "Vertices"} \cup DOMAIN DICT_MEDIT
    \cup {"Corners", "Normals", "NormalAtVertices", "SubDomainFromMesh", "SubDomainFromGeom",
          "VertexOnGeometricVertex", "VertexOnGeometricEdge", "EdgeOnGeometricEdge",
          "Identifier", "Geometry", "RequiredVertices", "TangentAtVertices", "Tangents",
          "Ridges", "End", "END"}

\* C9: when Vertices is dispatched and MeshVersionFormatted or Dimension was not
\* dispatched before it, the read ends in a ReadError (and so returns no mesh).
C9_VerticesNeedsVersionAndDimension ==
    (rd.last = "Vertices" /\ ~({"MeshVersionFormatted", "Dimension"} \subseteq rd.seenBefore))
        => rd.pc = "ReadError"

C9_Witness ==
    /\ rd.last = "Vertices"
    /\ "Dimension" \in rd.seenBefore
    /\ "MeshVersionFormatted" \notin rd.seenBefore
    /\ rd.pc = "ReadError"

\* C10: a dispatched line whose first token is not a keyword the reader handles
\* (a number, a non-alphabetic word, an unknown alphabetic word) ends the read in a
\* ReadError; the first dispatched line of the file is one such line.
C10_UnknownKeywordIsFatal ==
    (rd.last # "" /\ rd.last \notin HandledKeywords) => rd.pc = "ReadError"

C10_Witness ==
    /\ rd.last = "Foo"
    /\ rd.seenBefore = {}
    /\ rd.pc = "ReadError"

----------------------------------------------------------------------------
(* Hand-made binary files: a header, up to MaxBinBlocks blocks and the terminator, *)
(* cut after any number of words                                                   *)

BinBlockKinds == {"Vertices", "Triangles", "Corners", "Dimension", "Reserved", "Unknown"}

\* The words of one block of a file of header h
BinBlockWords(kind, h) ==
    LET sw == h.code = 16777216
        w == VersionWidths(h.version)
        Tag(t) == Encode("i", 4, sw, t)
        Pos == Encode("i", w.possize, sw, 0)
        Idx(v) == Encode("i", w.isize, sw, v)
        Flt(v) == Encode("r", w.fsize, sw, v)
        Coords(a) == Concat([j \in 1..h.dim |-> Flt(a + j)])
    IN  CASE kind = "Vertices" ->
               Tag(4) \o Pos \o Idx(2) \o Coords(0) \o Idx(7) \o Coords(1) \o Idx(8)
          [] kind = "Triangles" -> Tag(6) \o Pos \o Idx(1) \o Idx(1) \o Idx(2) \o Idx(3) \o Idx(5)
          [] kind = "Corners" -> Tag(13) \o Pos \o Idx(2) \o Idx(1) \o Idx(2)
          [] kind = "Dimension" -> Tag(3) \o Pos \o Idx(h.dim)
          [] kind = "Reserved" -> Tag(2)
          [] kind = "Unknown" -> Tag(999) \o Pos
          [] kind = "End" -> Tag(54) \o Pos

BinHeaderWords(h) ==
    LET sw == h.code = 16777216
    IN  <<h.code>> \o Encode("i", 4, sw, h.version) \o Encode("i", 4, sw, h.dimtag)
        \o Encode("i", VersionWidths(h.version).possize, sw, 0) \o Encode("i", 4, sw, h.dim)

BinFullWords(h) ==
    BinHeaderWords(h) \o Concat([i \in DOMAIN h.blocks |-> BinBlockWords(h.blocks[i], h)])
    \o BinBlockWords("End", h)

\* Word offset at which block i of the file starts (the terminator follows the last)
BinBlockStart(h, i) ==
    1 + Len(BinHeaderWords(h))
    + SumSeq([j \in 1..(i - 1) |-> Len(BinBlockWords(h.blocks[j], h))])

BinHeaders ==
    [code : {1}, version : 1..4, dimtag : {3}, dim : {3}]
    \cup [code : {1, 16777216}, version : {3}, dimtag : {3}, dim : {2, 3}]

BadBinHeaders ==
    { [code |-> 2, version |-> 3, dimtag |-> 3, dim |-> 3],
      [code |-> 1, version |-> 5, dimtag |-> 3, dim |-> 3],
      [code |-> 1, version |-> 3, dimtag |-> 4, dim |-> 3],
      [code |-> 1, version |-> 3, dimtag |-> 3, dim |-> 4] }

WithBlocks(h, blocks, cut) ==
    [code |-> h.code, version |-> h.version, dimtag |-> h.dimtag, dim |-> h.dim,
     blocks |-> blocks, cut |-> cut]

\* The file of header h and blocks b cut after cut words; a file with a bad header
\* is whole and has no blocks
InitBin ==
    /\ \E h \in BinHeaders \cup BadBinHeaders, b \in SeqsUpTo(BinBlockKinds, MaxBinBlocks) :
          \E cut \in 0..Len(BinFullWords(WithBlocks(h, b, 0))) :
             /\ h \in BadBinHeaders => (b = <<>> /\ cut = Len(BinFullWords(WithBlocks(h, b, 0))))
             /\ bin = SubSeq(BinFullWords(WithBlocks(h, b, 0)), 1, cut)
             /\ rd = [ReaderStart("binhdr") EXCEPT !.input = WithBlocks(h, b, cut)]
    /\ txt = <<>>
    /\ mesh = NoMesh
    /\ mesh0 = NoMesh
    /\ wr = NoWriter
    /\ cv = NoRow

NextBin == BinHeader \/ BinStep \/ BinFinish

SpecBin == InitBin /\ [][NextBin]_vars

----------------------------------------------------------------------------
(* Claims about read_binary_buffer, checked under SpecBin *)

Finished(st) == st.pc \in {"returned", "ReadError", "OtherError"}

ValidBinHeader(h) ==
    h.code \in {1, 16777216} /\ h.version \in 1..4 /\ h.dimtag = 3 /\ h.dim \in {2, 3}

\* Every block of the file is one medit_codes knows
KnownBlocks(h) == "Unknown" \notin Range(h.blocks)

\* The file holds the tag of its terminator
HasTerminator(h) == h.cut >= BinBlockStart(h, Len(h.blocks) + 1)

\* A valid header, then the end of the file somewhere before the terminator tag
Truncated(h) ==
    ValidBinHeader(h) /\ KnownBlocks(h) /\ h.cut >= Len(BinHeaderWords(h)) /\ ~HasTerminator(h)

\* C3: a truncated binary stream makes the reader warn and return what it has
\* accumulated, with no partially read block in the result, rather than fail.
C3_TruncationWarnsAndReturns ==
    (Truncated(rd.input) /\ Finished(rd))
        => (rd.pc = "returned" /\ "End-of-file" \in Range(rd.warnings) /\ ~rd.partial)

\* C3, second half alone: no partially read block is in a returned mesh.
C3_NoPartialBlockReturned == rd.pc = "returned" => ~rd.partial

\* C6: no mesh is returned without points: a file with no vertices section makes the
\* read abort.
C6_MissingVerticesIsFatal == rd.pc = "returned" => rd.hasPoints

\* Keywords of the hand-made blocks that DICT_GMFMEDIT does not map
UnmappedKeyword(kind) ==
    CASE kind = "Corners" -> <<"GmfCorners">>
      [] kind = "Dimension" -> <<"GmfDimension">>
      [] OTHER -> <<>>

\* What the blocks of a hand-made file hold, the unmapped ones left out
ExpectedCells(blocks) ==
    Concat([i \in DOMAIN blocks |->
              IF blocks[i] = "Triangles"
              THEN <<[type |-> "triangle", data |-> <<<<0, 1, 2>>>>]>> ELSE <<>>])

ExpectedCellRef(blocks) ==
    Concat([i \in DOMAIN blocks |-> IF blocks[i] = "Triangles" THEN <<<<5>>>> ELSE <<>>])

ExpectedPoints(h) ==
    IF "Vertices" \in Range(h.blocks)
    THEN <<[j \in 1..h.dim |-> j], [j \in 1..h.dim |-> 1 + j]>> ELSE <<>>

ExpectedPointRef(h) == IF "Vertices" \in Range(h.blocks) THEN <<7, 8>> ELSE <<>>

----------------------------------------------------------------------------
(* The mesh container handed to write(): dim and fsize are the shape and the float *)
(* size of mesh.points, point_ref is point_data["medit:ref"], a block's isize is   *)
(* the item size of its data and its ref is cell_data["medit:ref"][k].             *)

\* fmt.format(*d, label) with num + 1 fields: the first num + 1 arguments are
\* printed, and too few arguments are an IndexError
FormatOk(row, num) == Len(row) + 1 >= num + 1

FormatRow(row, label, num) ==
    Line([j \in 1..(num + 1) |-> I((([i \in DOMAIN row |-> row[i] + 1]) \o <<label>>)[j])])

\* One element block of write_ascii_file; a block of an unregistered type is skipped
AsciiBlock(block) ==
    LET data == _convert_cell_data(block.type, block.data, _meshio_to_medit)
        medit_name == DICT_MESHIO[block.type][1]
        num == DICT_MESHIO[block.type][2]
    IN  IF block.type \notin DOMAIN DICT_MESHIO THEN <<>>
        ELSE Line(<<>>) \o Line(<<W(medit_name)>>) \o Line(<<I(Len(data))>>)
             \o Concat([r \in DOMAIN data |-> FormatRow(data[r], block.ref[r], num)])

AsciiBlockOk(block) ==
    /\ ConvertOk(block.type, block.data, _meshio_to_medit)
    /\ block.type \in DOMAIN DICT_MESHIO =>
         \A r \in DOMAIN block.data :
            FormatOk(_convert_cell_data(block.type, block.data, _meshio_to_medit)[r],
                     DICT_MESHIO[block.type][2])

\* write_ascii_file with the default float_fmt: the file, or the error that ends it
write_ascii_file(m) ==
    LET version == IF m.fsize = 4 THEN 1 ELSE 2
        head == Line(<<W("MeshVersionFormatted"), I(version)>>)
                \o Line(<<W("Dimension"), I(m.dim)>>)
                \o Line(<<>>) \o Line(<<W("Vertices")>>) \o Line(<<I(Len(m.points))>>)
                \o Concat([r \in DOMAIN m.points |->
                             Line([j \in 1..m.dim |-> F(m.points[r][j])] \o <<I(m.point_ref[r])>>)])
        bad == {k \in DOMAIN m.cells : ~AsciiBlockOk(m.cells[k])}
    IN  IF bad # {}
        THEN [status |-> "OtherError", kind |-> "ascii", content |-> <<>>, mesh |-> m,
              warnings |-> <<>>]
        ELSE [status |-> "written", kind |-> "ascii",
              content |-> head \o Concat([k \in DOMAIN m.cells |-> AsciiBlock(m.cells[k])])
                          \o Line(<<>>) \o Line(<<W("End")>>),
              mesh |-> m,
              warnings |-> Concat([k \in DOMAIN m.cells |->
                             IF m.cells[k].type \in DOMAIN DICT_MESHIO THEN <<>>
                             ELSE <<m.cells[k].type>>])]

\* Nodes of an element of a type; quad8, which the registry leaves out, has 8
NodesOf(t) == IF t \in DOMAIN DICT_MESHIO THEN DICT_MESHIO[t][2] ELSE 8

\* data.shape[1] of a block
Width(block) == IF block.data = <<>> THEN NodesOf(block.type) ELSE Len(block.data[1])

\* tmp_array[col] = data[:, i] + 1 for a field of n items: a column broadcasts over
\* the n items of each record when there is one record, and fills the records' items
\* when there are exactly n records; any other shape is a ValueError
ColumnFits(data, i, fd) ==
    /\ \A r \in DOMAIN data : i <= Len(data[r])
    /\ fd.n = 1 \/ Len(data) = 1 \/ Len(data) = fd.n

ColumnItems(data, i, fd, r) ==
    IF fd.n = 1 \/ Len(data) = 1 THEN [j \in 1..fd.n |-> data[r][i] + 1]
    ELSE [j \in 1..fd.n |-> data[j][i] + 1]

\* The words of record r of an element block: every field but the last takes a
\* column of the data, the last takes the labels
BlockRecord(data, labels, fields, r) ==
    Concat([i \in DOMAIN fields |->
              IF i < Len(fields)
              THEN Concat([j \in 1..fields[i].n |->
                             Encode(fields[i].t, fields[i].size, FALSE,
                                    ColumnItems(data, i, fields[i], r)[j])])
              ELSE Concat([j \in 1..fields[i].n |->
                             Encode(fields[i].t, fields[i].size, FALSE, labels[r])])])

\* The loop of write_binary_file over the element blocks from block k on.  acc holds
\* the words written so far, the stream position and the blocks of the container,
\* whose data the loop replaces by the reordered data; starts lists the word offsets
\* at which the blocks written so far begin.
RECURSIVE BinaryBlocks(_, _, _, _)
BinaryBlocks(acc, k, dim, isize) ==
    IF k > Len(acc.cells) THEN acc
    ELSE
    LET block == acc.cells[k]
        data == _convert_cell_data(block.type, block.data, _meshio_to_medit)
        cells1 == [acc.cells EXCEPT ![k].data = data]
        medit_key == DICT_MESHIO[block.type][3]
        num_cells == Len(data)
        num_verts == Width(block)
        pos == acc.pos + num_cells * (num_verts + 1) * isize + 4 + 8 + isize
        fields == _produce_dtype(medit_codes[medit_key][3], dim, isize, 8).fields
        head == Encode("i", 4, FALSE, medit_key) \o Encode("i", 8, FALSE, pos)
                \o Encode("i", isize, FALSE, num_cells)
    IN  IF ~ConvertOk(block.type, block.data, _meshio_to_medit)
        THEN [acc EXCEPT !.status = "OtherError"]
        ELSE IF block.type \notin DOMAIN DICT_MESHIO
        THEN BinaryBlocks([acc EXCEPT !.cells = cells1, !.warnings = Append(@, block.type)],
                          k + 1, dim, isize)
        ELSE IF \E i \in 1..(Len(fields) - 1) : ~ColumnFits(data, i, fields[i])
        THEN [acc EXCEPT !.cells = cells1, !.words = @ \o head, !.pos = pos,
                         !.starts = Append(@, Len(acc.words) + 1),
                         !.status = "OtherError"]
        ELSE BinaryBlocks(
               [acc EXCEPT !.cells = cells1, !.pos = pos,
                           !.starts = Append(@, Len(acc.words) + 1),
                           !.words = @ \o head
                              \o Concat([r \in 1..num_cells |->
                                           BlockRecord(data, block.ref, fields, r)])],
               k + 1, dim, isize)

\* write_binary_file: the file (or the error that ends it) and the container after it
write_binary_file(m) ==
    LET has_big_ints == \E k \in DOMAIN m.cells : m.cells[k].isize = 8
        isize == IF has_big_ints THEN 8 ELSE 4
        version == IF has_big_ints THEN 4 ELSE 3
        num_verts == Len(m.points)
        pos0 == 4 * 4 + 8
        pos1 == pos0 + num_verts * m.dim * 8 + num_verts * isize + 4 + 8 + isize
        header == Encode("i", 4, FALSE, 1) \o Encode("i", 4, FALSE, version)
                  \o Encode("i", 4, FALSE, 3) \o Encode("i", 8, FALSE, pos0)
                  \o Encode("i", 4, FALSE, m.dim)
        vhead == Encode("i", 4, FALSE, 4) \o Encode("i", 8, FALSE, pos1)
                 \o Encode("i", isize, FALSE, num_verts)
        verts == Concat([r \in DOMAIN m.points |->
                           Concat([j \in 1..m.dim |-> Encode("r", 8, FALSE, m.points[r][j])])
                           \o Encode("i", isize, FALSE, m.point_ref[r])])
        done == BinaryBlocks([status |-> "written", words |-> header \o vhead \o verts,
                              pos |-> pos1, cells |-> m.cells, warnings |-> <<>>,
                              starts |-> <<3, Len(header) + 1>>],
                             1, m.dim, isize)
    IN  [status |-> done.status, kind |-> "binary",
         content |-> IF done.status = "written"
                     THEN done.words \o Encode("i", 4, FALSE, 54) \o Encode("i", 8, FALSE, 0)
                     ELSE done.words,
         mesh |-> [m EXCEPT !.cells = done.cells],
         warnings |-> done.warnings,
         starts |-> IF done.status = "written"
                    THEN Append(done.starts, Len(done.words) + 1) ELSE done.starts]

----------------------------------------------------------------------------
(* The reordering adapter on single rows: a row in Medit's node order is converted *)
(* to meshio's order (as the readers do) and back (as the writers do)              *)

ConvTypes == DOMAIN DICT_MESHIO \cup {"quad8"}

InitPerm ==
    /\ \E t \in ConvTypes, a \in 0..MaxShift :
          cv = [type |-> t, row |-> [i \in 1..NodesOf(t) |-> a + i - 1],
                orig |-> [i \in 1..NodesOf(t) |-> a + i - 1], mid |-> <<>>, phase |-> "medit"]
    /\ rd = ReaderStart("idle")
    /\ txt = <<>>
    /\ bin = <<>>
    /\ mesh = NoMesh
    /\ mesh0 = NoMesh
    /\ wr = NoWriter

\* _convert_cell_data(cell_type, data, _medit_to_meshio) on a one-row block
ToInternal ==
    /\ cv.phase = "medit"
    /\ cv' = [cv EXCEPT !.row = _convert_cell_data(cv.type, <<cv.row>>, _medit_to_meshio)[1],
                        !.mid = _convert_cell_data(cv.type, <<cv.row>>, _medit_to_meshio)[1],
                        !.phase = "meshio"]
    /\ UNCHANGED <<mesh, mesh0, wr, txt, bin, rd>>

\* _convert_cell_data(cell_type, data, _meshio_to_medit) on a one-row block
ToExternal ==
    /\ cv.phase = "meshio"
    /\ cv' = [cv EXCEPT !.row = _convert_cell_data(cv.type, <<cv.row>>, _meshio_to_medit)[1],
                        !.phase = "back"]
    /\ UNCHANGED <<mesh, mesh0, wr, txt, bin, rd>>

NextPerm == ToInternal \/ ToExternal

SpecPerm == InitPerm /\ [][NextPerm]_vars

\* C8: a hexahedron27 row converted with _medit_to_meshio and then with
\* _meshio_to_medit is the row it was, and for an element type outside the
\* permutation table each conversion leaves the row as it was.
C8_PermutationRoundTrip ==
    /\ cv.phase = "back" => cv.row = cv.orig
    /\ (cv.phase \in {"meshio", "back"} /\ cv.type \notin DOMAIN _medit_to_meshio)
          => (cv.row = cv.orig /\ cv.mid = cv.orig)

C8_Witness ==
    /\ cv.type = "hexahedron27"
    /\ cv.phase = "back"
    /\ cv.mid # cv.orig
    /\ cv.mid[21] = cv.orig[26]
    /\ cv.row = cv.orig

----------------------------------------------------------------------------
(* write() and read() on mesh containers: up to MaxWrites writes of a container, *)
(* then a read of the file written last                                          *)

RTTypes == {"line", "triangle", "hexahedron27", "point", "quad8"}

BlockData(t) ==
    CASE t = "line" -> <<<<0, 1>>>>
      [] t = "triangle" -> <<<<0, 1, 2>>, <<2, 1, 0>>>>
      [] t = "point" -> <<<<0>>>>
      [] OTHER -> <<[i \in 1..NodesOf(t) |-> i - 1]>>

RTBlocks ==
    {[type |-> t, isize |-> sz, data |-> BlockData(t),
      ref |-> [r \in DOMAIN BlockData(t) |-> 4 + r]] : t \in RTTypes, sz \in {4, 8}}

Meshes ==
    {[dim |-> d, fsize |-> fs,
      points |-> [r \in 1..2 |-> [j \in 1..d |-> (r + j) % 3]],
      point_ref |-> pr, cells |-> cs] :
        d \in {2, 3}, fs \in {4, 8}, pr \in {<<7, 8>>, <<16777217, 8>>},
        cs \in SeqsUpTo(RTBlocks, MaxBlocks)}

InitRT ==
    /\ mesh \in Meshes
    /\ mesh0 = mesh
    /\ wr = NoWriter
    /\ rd = ReaderStart("idle")
    /\ txt = <<>>
    /\ bin = <<>>
    /\ cv = NoRow

\* A file as write() leaves it; of a binary file, also the word offsets at which its
\* blocks begin (the dimension record of the header, the vertices, the element blocks
\* and the terminator)
Written(res) ==
    [kind |-> res.kind, content |-> res.content, warnings |-> res.warnings,
     status |-> res.status,
     starts |-> IF res.kind = "binary" THEN res.starts ELSE <<>>]

\* write(filename, mesh) for a name ending in another letter than "b"
WriteAscii ==
    /\ rd.pc = "idle" /\ wr.calls < MaxWrites /\ wr.status # "OtherError"
    /\ wr' = [calls |-> wr.calls + 1, files |-> Append(wr.files, Written(write_ascii_file(mesh))),
              status |-> write_ascii_file(mesh).status]
    /\ mesh' = write_ascii_file(mesh).mesh
    /\ UNCHANGED <<mesh0, txt, bin, rd, cv>>

\* write(filename, mesh) for a name ending in "b"
WriteBinary ==
    /\ rd.pc = "idle" /\ wr.calls < MaxWrites /\ wr.status # "OtherError"
    /\ wr' = [calls |-> wr.calls + 1, files |-> Append(wr.files, Written(write_binary_file(mesh))),
              status |-> write_binary_file(mesh).status]
    /\ mesh' = write_binary_file(mesh).mesh
    /\ UNCHANGED <<mesh0, txt, bin, rd, cv>>

\* read(filename) of the file written last: the reader is chosen by the name
ReadOpen ==
    /\ rd.pc = "idle" /\ wr.status = "written"
    /\ LET file == wr.files[Len(wr.files)] IN
         IF file.kind = "binary"
         THEN bin' = file.content /\ txt' = txt /\ rd' = ReaderStart("binhdr")
         ELSE txt' = file.content /\ bin' = bin /\ rd' = ReaderStart("ascii")
    /\ UNCHANGED <<mesh, mesh0, wr, cv>>

NextRT ==
    \/ WriteAscii \/ WriteBinary \/ ReadOpen
    \/ AsciiStep \/ AsciiFinish \/ BinHeader \/ BinStep \/ BinFinish

SpecRT == InitRT /\ [][NextRT]_vars

----------------------------------------------------------------------------
(* Claims about write() and read(write()), checked under SpecRT *)

Registered(m) == \A k \in DOMAIN m.cells : m.cells[k].type \in DOMAIN DICT_MESHIO

\* The blocks of a container that the writers emit, as a reader returns blocks
WrittenCells(m) ==
    Concat([k \in DOMAIN m.cells |->
              IF m.cells[k].type \in DOMAIN DICT_MESHIO
              THEN <<[type |-> m.cells[k].type, data |-> m.cells[k].data]>> ELSE <<>>])

WrittenCellRef(m) ==
    Concat([k \in DOMAIN m.cells |->
              IF m.cells[k].type \in DOMAIN DICT_MESHIO THEN <<m.cells[k].ref>> ELSE <<>>])

SameMesh(st, m) ==
    /\ st.points = m.points
    /\ st.point_ref = m.point_ref
    /\ st.cells = WrittenCells(m)
    /\ st.cell_ref = WrittenCellRef(m)

\* C1: for a container with points, one or more blocks of registered types and
\* reference arrays, read(write(mesh)) returns the same points, blocks and labels,
\* in the ASCII and in the binary encoding.
C1_RoundTrip ==
    (wr.calls = 1 /\ Registered(mesh0) /\ Len(mesh0.cells) >= 1) =>
        /\ wr.status = "written"
        /\ Finished(rd) => (rd.pc = "returned" /\ SameMesh(rd, mesh0))

\* C5: a write only reads the container, so that a second write of it produces the
\* file of the first.
C5_WriteLeavesMeshUnchanged ==
    /\ mesh = mesh0
    /\ (wr.calls = 2 /\ wr.files[1].kind = wr.files[2].kind)
          => wr.files[1].content = wr.files[2].content

\* C7: write_binary_file emits version 4 with 8-byte indices if a block stores its
\* indices in 8 bytes and version 3 with 4-byte indices otherwise; the reader decodes
\* with the widths of that version and returns the connectivity and the labels that
\* were written.
C7_VersionWidthRoundTrip ==
    LET big == \E k \in DOMAIN mesh0.cells : mesh0.cells[k].isize = 8 IN
    (wr.calls = 1 /\ wr.files[1].kind = "binary") =>
        /\ wr.status = "written"
        /\ wr.files[1].content[2] = IF big THEN 4 ELSE 3
        /\ rd.pc \in {"binary", "returned"} =>
             /\ rd.version = IF big THEN 4 ELSE 3
             /\ rd.isize = IF big THEN 8 ELSE 4
             /\ rd.fsize = 8 /\ rd.possize = 8
        /\ Finished(rd) =>
             /\ rd.pc = "returned"
             /\ rd.cells = WrittenCells(mesh0)
             /\ rd.cell_ref = WrittenCellRef(mesh0)
             /\ rd.point_ref = mesh0.point_ref

\* The stream-position field of the block that begins at word offset start: the
\* 8-byte integer after the block's 4-byte tag
PosField(content, start) == NativeValue("i", SubSeq(content, start + 1, start + 2))

\* The byte offset of a word offset
ByteOffset(w) == 4 * (w - 1)

BinaryFiles == {k \in DOMAIN wr.files : wr.files[k].kind = "binary" /\ wr.files[k].status = "written"}

\* C11: in a file written by write_binary_file, the stream-position field of the
\* header's dimension record, of the vertices block and of every emitted element
\* block is the byte offset at which the next block starts, for version 3 and for
\* version 4 and also when blocks of unregistered types are skipped; the terminator
\* carries stream position 0.
C11_StreamPositions ==
    \A k \in BinaryFiles :
        LET file == wr.files[k]
            n == Len(file.starts)
        IN  /\ \A j \in 1..(n - 1) :
                  PosField(file.content, file.starts[j]) = ByteOffset(file.starts[j + 1])
            /\ PosField(file.content, file.starts[n]) = 0

====
